---- MODULE Spec2Model ----
(***************************************************************************)
(* Model of src/main.rs: a terminal dashboard that fetches prices for a    *)
(* fixed list of trading pairs once per second, renders them, and quits on *)
(* a key press.                                                            *)
(*                                                                         *)
(* Units.  Time is in milliseconds of the monotonic clock (Instant).       *)
(* A price is an integer number of hundredths (4250 is the f64 42.5): the  *)
(* store keeps the value the lookup returned, and every configured         *)
(* precision (2, 4, 6) prints such a value exactly, padded with zeros.     *)
(*                                                                         *)
(* The clock is read at main.rs:124, 135 and 137 only.  It advances while  *)
(* the program waits: by PollTimeoutMs when event::poll times out, by a    *)
(* wait of PollWaits when an event arrives during the wait of event::poll, *)
(* and by a delay of LookupDelays in each get_price call.                  *)
(*                                                                         *)
(* Four specifications run the same program in different environments:     *)
(* Spec (any event may arrive, no lookup is answered, the clock is         *)
(* followed through the first fetch step), MarketSpec (any lookup may be   *)
(* answered, no event arrives), LiveSpec (a few events, fair scheduling of *)
(* the loop) and LoopSpec (a few events and a few answered lookups         *)
(* together).                                                              *)
(***************************************************************************)
EXTENDS Integers, Sequences, FiniteSets

(***************************************************************************)
(* Program constants.                                                      *)
(***************************************************************************)
\* main.rs:135  Duration::from_secs(1)
FetchIntervalMs == 1000
\* main.rs:141  Duration::from_millis(250)
PollTimeoutMs == 250

\* main.rs:57-118  the literal vector of CoinConfig records built by App::new
coin_configs ==
    << [symbol |-> "BTCUSDT",  display_name |-> "BTC/USDT",  color |-> "Green",       precision |-> 2],
       [symbol |-> "ETHUSDT",  display_name |-> "ETH/USDT",  color |-> "Blue",        precision |-> 2],
       [symbol |-> "BNBUSDT",  display_name |-> "BNB/USDT",  color |-> "Yellow",      precision |-> 2],
       [symbol |-> "UNIUSDT",  display_name |-> "UNI/USDT",  color |-> "Cyan",        precision |-> 2],
       [symbol |-> "TONUSDT",  display_name |-> "TON/USDT",  color |-> "Cyan",        precision |-> 2],
       [symbol |-> "SOLUSDT",  display_name |-> "SOL/USDT",  color |-> "Cyan",        precision |-> 2],
       [symbol |-> "XRPUSDT",  display_name |-> "XRP/USDT",  color |-> "Magenta",     precision |-> 4],
       [symbol |-> "DOGEUSDT", display_name |-> "DOGE/USDT", color |-> "LightYellow", precision |-> 6],
       [symbol |-> "TONUSDT",  display_name |-> "TON/USDT",  color |-> "LightBlue",   precision |-> 4],
       [symbol |-> "ADAUSDT",  display_name |-> "ADA/USDT",  color |-> "LightCyan",   precision |-> 4] >>

\* coin_configs.len()
NumCoins == Len(coin_configs)

\* the ticker symbols that occur in the configuration
Symbols == { coin_configs[k].symbol : k \in 1..NumCoins }

(***************************************************************************)
(* Bounds of the model.                                                    *)
(***************************************************************************)
\* MarketSpec, LiveSpec, LoopSpec: the clock is followed up to this many
\* milliseconds after construction
MaxTime == 2000
\* Spec: the clock is followed up to this many milliseconds after construction
MaxKeyTime == 1250
\* Spec, LoopSpec: capacity of the input source's buffer of unread events
MaxQueue == 1
\* LiveSpec: capacity of the input source's buffer of unread events
MaxPending == 2
\* MarketSpec: lookups the market answers with a price in one run
MaxOk == 2
\* LoopSpec: lookups the market answers with a price in one run
MaxLoopOk == 1

(***************************************************************************)
(* Inputs.                                                                 *)
(***************************************************************************)
\* prices a successful lookup may return, in hundredths: negative, zero, 42.5
PriceValues == { -100, 0, 4250 }

\* Result<SymbolPrice>: Err(_) or Ok(price)
LookupResults ==
    { [ok |-> FALSE, price |-> 0] } \cup { [ok |-> TRUE, price |-> p] : p \in PriceValues }

\* how long one get_price call may take, in milliseconds
LookupDelays == { 0, 250 }

\* how far into the wait of event::poll an event may arrive, in milliseconds;
\* less than the timeout
PollWaits == { 125 }

\* crossterm KeyCode values: Esc, the three characters the match names, another key
KeyCodes == { "Esc", "q", "c", "C", "x" }
\* crossterm KeyModifiers is a set of flags
ModifierFlags == { "CONTROL", "SHIFT" }
\* crossterm KeyEventKind
KeyKinds == { "Press", "Release" }

KeyEvents ==
    { [type |-> "Key", code |-> c, modifiers |-> m, kind |-> k] :
        c \in KeyCodes, m \in SUBSET ModifierFlags, k \in KeyKinds }

OtherEvents ==
    { [type |-> t, code |-> "none", modifiers |-> {}, kind |-> "none"] :
        t \in { "Mouse", "Resize", "FocusGained" } }

\* crossterm Event values the input source can deliver
Events == KeyEvents \cup OtherEvents

\* the events of LiveSpec's input source: the three quit chords, a release, a
\* key that is not bound, a resize
LiveEvents ==
    { [type |-> "Key", code |-> "Esc", modifiers |-> {}, kind |-> "Press"],
      [type |-> "Key", code |-> "q", modifiers |-> {}, kind |-> "Press"],
      [type |-> "Key", code |-> "c", modifiers |-> {"CONTROL"}, kind |-> "Press"],
      [type |-> "Key", code |-> "q", modifiers |-> {}, kind |-> "Release"],
      [type |-> "Key", code |-> "x", modifiers |-> {}, kind |-> "Press"],
      [type |-> "Resize", code |-> "none", modifiers |-> {}, kind |-> "none"] }

\* the events of LoopSpec's input source: a quit key and a key that is not bound
LoopEvents ==
    { [type |-> "Key", code |-> "q", modifiers |-> {}, kind |-> "Press"],
      [type |-> "Key", code |-> "x", modifiers |-> {}, kind |-> "Press"] }

VARIABLES
    pc,           \* the statement of main / App::run / update_prices to execute next
    running,      \* App.running
    prices,       \* App.prices, one value per index of coin_configs
    last_update,  \* App.last_update
    idx,          \* the for loop's position in update_prices (1-based), 0 outside it
    ev,           \* the value event::read returned, inside handle_crossterm_events
    called,       \* the key events this handle_crossterm_events passed to on_key_event
    result,       \* the Result run returned: "none" until it returns
    restores,     \* calls of ratatui::restore so far
    reported,     \* whether the process has reported an error (after main returned)
    screen,       \* the lines of the "Live Prices" block as last drawn
    now,          \* the clock
    input,        \* events delivered by the input source and not read yet
    lookups,      \* history: the get_price calls of the current / last fetch step
    before,       \* history: prices when the current / last fetch step began
    fetched,      \* history: indices whose lookup has succeeded at least once
    fetch_at,     \* history: clock readings at which a fetch step began
    n_ok          \* history: successful lookups so far

vars == << pc, running, prices, last_update, idx, ev, called, result, restores, reported,
           screen, now, input, lookups, before, fetched, fetch_at, n_ok >>

app == << running, prices, last_update >>
event == << ev, called >>
hist == << lookups, before, fetched, fetch_at, n_ok >>

(***************************************************************************)
(* Pure functions.                                                         *)
(***************************************************************************)
RECURSIVE Pow10(_)
\* 10^n
Pow10(n) == IF n = 0 THEN 1 ELSE 10 * Pow10(n - 1)

\* main.rs:180  format!("${:.prec$}", price, prec = precision) of a price given
\* in hundredths, for prec >= 2 (every configured precision): the sign, the
\* integer digits, and the `prec` fraction digits as a number
FormatPrice(price, prec) ==
    LET mag == IF price < 0 THEN -price ELSE price
    IN  [ sign   |-> IF price < 0 THEN "-" ELSE "",
          int    |-> mag \div 100,
          frac   |-> (mag % 100) * Pow10(prec - 2),
          digits |-> prec ]

\* main.rs:176-184  one line per configuration record, in configuration order:
\* "<display_name>:  " and the formatted price in the record's colour
RenderLines(ps) ==
    [ k \in 1..NumCoins |->
        [ label |-> coin_configs[k].display_name,
          text  |-> FormatPrice(ps[k], coin_configs[k].precision),
          color |-> coin_configs[k].color ] ]

\* variant of quit that leaves running as it is
quit_keeps_running(run) == run

\* main.rs:220-222  App::quit: the new value of running
quit(run) == FALSE

\* variant of the quit pattern without the Esc alternative
QuitPatternNoEsc(key) ==
    \/ key.code = "q"
    \/ key.modifiers = { "CONTROL" } /\ key.code \in { "c", "C" }

\* variant of the quit pattern that takes c and C with any modifiers
QuitPatternAnyC(key) == key.code \in { "Esc", "q", "c", "C" }

\* main.rs:211-213  the pattern of the match arm that calls quit
QuitPattern(key) ==
    \/ key.code \in { "Esc", "q" }
    \/ key.modifiers = { "CONTROL" } /\ key.code \in { "c", "C" }

\* variant of the handler in which every key quits
on_key_event_any_key(key, run) == quit(run)

\* main.rs:210-217  App::on_key_event: the new value of running
on_key_event(key, run) == IF QuitPattern(key) THEN quit(run) ELSE run

\* variant of the guard that does not look at the kind of the key event
IsKeyAnyKind(e) == e.type = "Key"

\* main.rs:201  the guard of the only arm that dispatches
IsKeyPress(e) == e.type = "Key" /\ e.kind = "Press"

\* main.rs:199-206  the match of handle_crossterm_events: the new value of running
dispatch(e, run) == IF IsKeyPress(e) THEN on_key_event(e, run) ELSE run

\* variant of the loop body that stores the default 0.0 when the lookup fails
StorePriceOrDefault(ps, k, r) == [ps EXCEPT ![k] = IF r.ok THEN r.price ELSE 0]

\* variant of the loop body that stores -1.0 when the lookup fails
StorePriceSentinel(ps, k, r) == [ps EXCEPT ![k] = IF r.ok THEN r.price ELSE -100]

\* variant of the loop body that stores only positive prices
StorePricePositive(ps, k, r) ==
    IF r.ok /\ r.price > 0 THEN [ps EXCEPT ![k] = r.price] ELSE ps

\* main.rs:229-231  the body of the for loop: the new prices after one lookup
StorePrice(ps, k, r) == IF r.ok THEN [ps EXCEPT ![k] = r.price] ELSE ps

\* variant of the elapsed test with a 1 millisecond interval
FetchDueMillis(t, last) == t - last >= 1

\* main.rs:135  self.last_update.elapsed() >= Duration::from_secs(1)
FetchDue(t, last) == t - last >= FetchIntervalMs

(***************************************************************************)
(* Initial state: main has initialised the terminal and App::new has       *)
(* returned (main.rs:36-38, 120-125); run is about to start.               *)
(***************************************************************************)
\* an application whose fetch timer starts one interval in the past
InitFetchDue ==
    /\ pc = "run"
    /\ running = FALSE
    /\ prices = [ k \in 1..NumCoins |-> 0 ]
    /\ now = 0
    /\ last_update = 0 - FetchIntervalMs
    /\ idx = 0
    /\ ev = << >>
    /\ called = << >>
    /\ result = "none"
    /\ restores = 0
    /\ reported = FALSE
    /\ screen = << >>
    /\ input = << >>
    /\ lookups = << >>
    /\ before = [ k \in 1..NumCoins |-> 0 ]
    /\ fetched = {}
    /\ fetch_at = << >>
    /\ n_ok = 0

Init ==
    /\ pc = "run"
    /\ running = FALSE
    /\ prices = [ k \in 1..NumCoins |-> 0 ]
    /\ now = 0
    /\ last_update = 0
    /\ idx = 0
    /\ ev = << >>
    /\ called = << >>
    /\ result = "none"
    /\ restores = 0
    /\ reported = FALSE
    /\ screen = << >>
    /\ input = << >>
    /\ lookups = << >>
    /\ before = [ k \in 1..NumCoins |-> 0 ]
    /\ fetched = {}
    /\ fetch_at = << >>
    /\ n_ok = 0

\* the statements of the loop of App::run and of what it calls
LoopPcs ==
    { "while", "draw", "elapsed", "get_price", "stamp", "poll", "read", "match", "handled" }

(***************************************************************************)
(* App::run                                                                *)
(***************************************************************************)
\* main.rs:130
RunStart ==
    /\ pc = "run"
    /\ running' = TRUE
    /\ pc' = "while"
    /\ UNCHANGED << prices, last_update, idx, event, result, restores, reported,
                    screen, now, input, hist >>

\* a loop that runs one more iteration whatever the value of running
LoopTestAlwaysDraws ==
    /\ pc = "while"
    /\ pc' = "draw"
    /\ UNCHANGED << app, idx, event, result, restores, reported, screen, now, input, hist >>

\* main.rs:131, 145  the loop test; Ok(()) when running is false
LoopTest ==
    /\ pc = "while"
    /\ IF running
          THEN pc' = "draw" /\ UNCHANGED result
          ELSE pc' = "restore" /\ result' = "Ok"
    /\ UNCHANGED << app, idx, event, restores, reported, screen, now, input, hist >>

\* a render that also resets the fetch timer
DrawAndStamp ==
    /\ pc = "draw"
    /\ screen' = RenderLines(prices)
    /\ last_update' = now
    /\ pc' = "elapsed"
    /\ UNCHANGED << running, prices, idx, event, result, restores, reported, now, input,
                    hist >>

\* main.rs:132  terminal.draw(|frame| self.render(frame)) succeeds
Draw ==
    /\ pc = "draw"
    /\ screen' = RenderLines(prices)
    /\ pc' = "elapsed"
    /\ UNCHANGED << app, idx, event, result, restores, reported, now, input, hist >>

\* a loop that notes the error of terminal.draw and carries on with the iteration
DrawErrContinues ==
    /\ pc = "draw"
    /\ result' = "Err"
    /\ pc' = "elapsed"
    /\ UNCHANGED << app, idx, event, restores, reported, screen, now, input, hist >>

\* main.rs:132  terminal.draw returns Err, which `?` returns from run
DrawErr ==
    /\ pc = "draw"
    /\ result' = "Err"
    /\ pc' = "restore"
    /\ UNCHANGED << app, idx, event, restores, reported, screen, now, input, hist >>

\* main.rs:135-136, 225-228  the elapsed test; entering update_prices when due
CheckElapsed ==
    /\ pc = "elapsed"
    /\ IF FetchDue(now, last_update)
          THEN /\ pc' = "get_price"
               /\ idx' = 1
               /\ lookups' = << >>
               /\ before' = prices
               /\ fetch_at' = Append(fetch_at, now)
          ELSE /\ pc' = "poll"
               /\ UNCHANGED << idx, lookups, before, fetch_at >>
    /\ UNCHANGED << app, event, result, restores, reported, screen, now, input,
                    fetched, n_ok >>

\* a fetch step that is abandoned as soon as an input event is waiting
GetPriceCancellable(okcap, horizon) ==
    /\ pc = "get_price"
    /\ IF input # << >>
          THEN /\ idx' = 0 /\ pc' = "poll"
               /\ UNCHANGED << prices, now, lookups, fetched, n_ok >>
          ELSE /\ \E r \in LookupResults, d \in LookupDelays :
                     /\ r.ok => n_ok < okcap
                     /\ now + d <= horizon
                     /\ now' = now + d
                     /\ prices' = [ prices EXCEPT ![idx] = IF r.ok THEN r.price ELSE @ ]
                     /\ lookups' = Append(lookups, [ index |-> idx,
                                                     symbol |-> coin_configs[idx].symbol,
                                                     ok |-> r.ok, price |-> r.price ])
                     /\ fetched' = IF r.ok THEN fetched \cup { idx } ELSE fetched
                     /\ n_ok' = IF r.ok THEN n_ok + 1 ELSE n_ok
               /\ IF idx < NumCoins
                     THEN idx' = idx + 1 /\ pc' = "get_price"
                     ELSE idx' = 0 /\ pc' = "stamp"
    /\ UNCHANGED << running, last_update, event, result, restores, reported, screen,
                    input, before, fetch_at >>

\* main.rs:228-234  one iteration of the for loop of update_prices: the lookup
\* for coin_configs[idx] returns r after d milliseconds; the market answers at
\* most okcap lookups of a run with a price; the clock is followed up to horizon
GetPrice(okcap, horizon) ==
    /\ pc = "get_price"
    /\ \E r \in LookupResults, d \in LookupDelays :
          /\ r.ok => n_ok < okcap
          /\ now + d <= horizon
          /\ now' = now + d
          /\ prices' = StorePrice(prices, idx, r)
          /\ lookups' = Append(lookups, [ index |-> idx,
                                          symbol |-> coin_configs[idx].symbol,
                                          ok |-> r.ok, price |-> r.price ])
          /\ fetched' = IF r.ok THEN fetched \cup { idx } ELSE fetched
          /\ n_ok' = IF r.ok THEN n_ok + 1 ELSE n_ok
    /\ IF idx < NumCoins
          THEN idx' = idx + 1 /\ pc' = "get_price"
          ELSE idx' = 0 /\ pc' = "stamp"
    /\ UNCHANGED << running, last_update, event, result, restores, reported, screen,
                    input, before, fetch_at >>

\* a loop that leaves last_update alone after a cycle in which no lookup
\* succeeded, so that the next iteration fetches again at once
StampUnlessAllFailed ==
    /\ pc = "stamp"
    /\ last_update' = IF \E a \in 1..Len(lookups) : lookups[a].ok THEN now ELSE last_update
    /\ pc' = "poll"
    /\ UNCHANGED << running, prices, idx, event, result, restores, reported, screen,
                    now, input, hist >>

\* main.rs:136-137  update_prices returned Ok(()); last_update = Instant::now()
Stamp ==
    /\ pc = "stamp"
    /\ last_update' = now
    /\ pc' = "poll"
    /\ UNCHANGED << running, prices, idx, event, result, restores, reported, screen,
                    now, input, hist >>

\* main.rs:141  event::poll returns Ok(true): at once when an event is waiting,
\* otherwise as soon as an event of E arrives, part of the timeout into the wait
PollReady(E, horizon) ==
    /\ pc = "poll"
    /\ IF input # << >>
          THEN UNCHANGED << now, input >>
          ELSE \E e \in E, w \in PollWaits :
                  /\ w < PollTimeoutMs
                  /\ now + w <= horizon
                  /\ now' = now + w
                  /\ input' = << e >>
    /\ pc' = "read"
    /\ UNCHANGED << app, idx, event, result, restores, reported, screen, hist >>

\* main.rs:141  event::poll returns Ok(false) after the whole timeout
PollTimeout(horizon) ==
    /\ pc = "poll"
    /\ input = << >>
    /\ now + PollTimeoutMs <= horizon
    /\ now' = now + PollTimeoutMs
    /\ pc' = "while"
    /\ UNCHANGED << app, idx, event, result, restores, reported, screen, input, hist >>

\* variant of the poll error that leaves main without restoring the terminal
PollErrNoRestore ==
    /\ pc = "poll"
    /\ result' = "Err"
    /\ pc' = "exit"
    /\ UNCHANGED << app, idx, event, restores, reported, screen, now, input, hist >>

\* main.rs:141  event::poll returns Err
PollErr ==
    /\ pc = "poll"
    /\ result' = "Err"
    /\ pc' = "restore"
    /\ UNCHANGED << app, idx, event, restores, reported, screen, now, input, hist >>

(***************************************************************************)
(* App::handle_crossterm_events                                            *)
(***************************************************************************)
\* main.rs:199  event::read returns the oldest unread event
Read ==
    /\ pc = "read"
    /\ input # << >>
    /\ ev' = << Head(input) >>
    /\ input' = Tail(input)
    /\ pc' = "match"
    /\ UNCHANGED << app, idx, called, result, restores, reported, screen, now, hist >>

\* main.rs:199  event::read returns Err
ReadErr ==
    /\ pc = "read"
    /\ result' = "Err"
    /\ pc' = "restore"
    /\ UNCHANGED << app, idx, event, restores, reported, screen, now, input, hist >>

\* main.rs:199-205  the match on the event: a key press goes to on_key_event,
\* every other event is dropped
Dispatch ==
    /\ pc = "match"
    /\ running' = dispatch(ev[1], running)
    /\ called' = IF IsKeyPress(ev[1]) THEN << ev[1] >> ELSE << >>
    /\ pc' = "handled"
    /\ UNCHANGED << prices, last_update, idx, ev, result, restores, reported, screen,
                    now, input, hist >>

\* handle_crossterm_events returns and the loop polls again before it renders
HandledPollsAgain ==
    /\ pc = "handled"
    /\ ev' = << >>
    /\ called' = << >>
    /\ pc' = "poll"
    /\ UNCHANGED << app, idx, result, restores, reported, screen, now, input, hist >>

\* main.rs:206  Ok(()): handle_crossterm_events returns to the loop
Handled ==
    /\ pc = "handled"
    /\ ev' = << >>
    /\ called' = << >>
    /\ pc' = "while"
    /\ UNCHANGED << app, idx, result, restores, reported, screen, now, input, hist >>

(***************************************************************************)
(* main                                                                    *)
(***************************************************************************)
\* main.rs:39  ratatui::restore()
Restore ==
    /\ pc = "restore"
    /\ restores' = restores + 1
    /\ pc' = "exit"
    /\ UNCHANGED << app, idx, event, result, reported, screen, now, input, hist >>

\* main.rs:40  main returns result; an Err is then reported by the runtime
Exit ==
    /\ pc = "exit"
    /\ reported' = (result = "Err")
    /\ pc' = "done"
    /\ UNCHANGED << app, idx, event, result, restores, screen, now, input, hist >>

(***************************************************************************)
(* The input source.                                                       *)
(***************************************************************************)
\* the terminal delivers an event of E while the loop runs; cap events fit in
\* the buffer
Deliver(E, cap) ==
    /\ pc \in LoopPcs
    /\ Len(input) < cap
    /\ \E e \in E : input' = Append(input, e)
    /\ UNCHANGED << pc, app, idx, event, result, restores, reported, screen, now, hist >>

(***************************************************************************)
(* Specifications.  The program is the same in all; they differ in what    *)
(* the environment does.                                                   *)
(***************************************************************************)
\* main and the loop of run, apart from input handling and lookups
Core(horizon) ==
    \/ RunStart \/ LoopTest \/ Draw \/ DrawErr \/ CheckElapsed \/ Stamp
    \/ PollTimeout(horizon) \/ PollErr \/ Restore \/ Exit

\* reading and dispatching an event of E
Handle(E, horizon) == PollReady(E, horizon) \/ Read \/ ReadErr \/ Dispatch \/ Handled

\* Spec: any event may arrive; no lookup is answered with a price
Next ==
    \/ Core(MaxKeyTime) \/ Handle(Events, MaxKeyTime) \/ GetPrice(0, MaxKeyTime)
    \/ Deliver(Events, MaxQueue)

Spec == Init /\ [][Next]_vars

\* MarketSpec: any lookup may be answered or fail; no event arrives
MarketNext == Core(MaxTime) \/ GetPrice(MaxOk, MaxTime)

MarketSpec == Init /\ [][MarketNext]_vars

\* LiveSpec: events of LiveEvents arrive; every step of the program that can
\* be taken is taken eventually (the loop is the only thread, and every call
\* it makes returns)
LiveNext ==
    \/ Core(MaxTime) \/ Handle(LiveEvents, MaxTime) \/ GetPrice(0, MaxTime)
    \/ Deliver(LiveEvents, MaxPending)

Progress ==
    \/ RunStart \/ LoopTest \/ Draw \/ CheckElapsed \/ GetPrice(0, MaxTime) \/ Stamp
    \/ PollReady(LiveEvents, MaxTime) \/ PollTimeout(MaxTime) \/ Read \/ Dispatch \/ Handled \/ Restore \/ Exit

LiveSpec == Init /\ [][LiveNext]_vars /\ WF_vars(Progress)

\* LoopSpec: events of LoopEvents arrive and lookups may be answered, a few of
\* each, so that input handling and price updates meet in one run
LoopNext ==
    \/ Core(MaxTime) \/ Handle(LoopEvents, MaxTime) \/ GetPrice(MaxLoopOk, MaxTime)
    \/ Deliver(LoopEvents, MaxQueue)

LoopSpec == Init /\ [][LoopNext]_vars

(***************************************************************************)
(* Properties.                                                             *)
(***************************************************************************)
Last(seq) == seq[Len(seq)]

\* the key press events the specification calls quit keys, with Control+c
\* read as the chord: Control is the only modifier
QuitChord(e) ==
    /\ e.type = "Key"
    /\ e.kind = "Press"
    /\ \/ e.code = "Esc"
       \/ e.code = "q"
       \/ e.code \in { "c", "C" } /\ e.modifiers = { "CONTROL" }

\* the quit keys with q read as plain q: q with no modifier
PlainQuitChord(e) == QuitChord(e) /\ (e.code = "q" => e.modifiers = {})

\* C1: whenever handle_crossterm_events has dispatched a key press of Esc, of q
\* or of Control+c / Control+C, running is false: the dispatch stops the loop
\* from every state of the loop in which it can happen (every such state has
\* running = TRUE), whatever the clock, last_update and the earlier events
C1_QuitKeysStop ==
    (pc = "handled" /\ QuitChord(ev[1])) => running = FALSE

\* C1 witness: Control+C has been dispatched and the loop is stopped
C1_Witness ==
    /\ pc = "handled"
    /\ ev = << [type |-> "Key", code |-> "C", modifiers |-> {"CONTROL"}, kind |-> "Press"] >>
    /\ called = ev
    /\ running = FALSE

\* C2 as stated: after the dispatch of any event that is not a press of Esc,
\* of plain q or of Control+c / Control+C, running is still true
C2_Original_OnlyPlainQuitKeysStop ==
    (pc = "handled" /\ ~PlainQuitChord(ev[1])) => running = TRUE

\* C2 amended: after the dispatch of any event that is not a press of Esc or q
\* (each with any modifiers) or of c / C with Control as the only modifier,
\* running is still true; this covers mouse, resize and focus events
C2_OnlyQuitKeysStop ==
    (pc = "handled" /\ ~QuitChord(ev[1])) => running = TRUE

\* C2 witness: a plain c press has been dispatched and the loop still runs
C2_Witness ==
    /\ pc = "handled"
    /\ ev = << [type |-> "Key", code |-> "c", modifiers |-> {}, kind |-> "Press"] >>
    /\ called = ev
    /\ running = TRUE

\* C3: the step that matches a key event whose kind is not Press does not
\* call on_key_event and leaves running, prices and last_update as they were
\* (running, in particular, true)
C3_ReleaseIgnored ==
    [][ (pc = "match" /\ pc' = "handled" /\ ev[1].type = "Key" /\ ev[1].kind # "Press")
            => (called' = << >> /\ running' = TRUE /\ UNCHANGED app) ]_vars

\* C3 witness: a release of q has been read and matched, and the loop still runs
C3_Witness ==
    /\ pc = "handled"
    /\ ev = << [type |-> "Key", code |-> "q", modifiers |-> {}, kind |-> "Release"] >>
    /\ called = << >>
    /\ running = TRUE

\* the fetch step that began last has made all its lookups
CycleComplete == Len(lookups) = NumCoins

\* C4: outside the for loop of update_prices the last fetch step, if any, has
\* looked up every entry (a failure did not end the loop early), and for all
\* entries A, B of it with A failed and B answered with P, the price of A is
\* the one it had before the step and the price of B is P
C4_PartialFailureIsolation ==
    (pc # "get_price" /\ lookups # << >>) =>
        /\ CycleComplete
        /\ \A a, b \in 1..Len(lookups) :
              (~lookups[a].ok /\ lookups[b].ok) =>
                  /\ prices[lookups[a].index] = before[lookups[a].index]
                  /\ prices[lookups[b].index] = lookups[b].price

\* C4 witness: a fetch step has ended in which an entry that held 42.5 failed
\* and a later entry was answered
C4_Witness ==
    /\ pc = "stamp"
    /\ CycleComplete
    /\ \E a, b \in 1..NumCoins :
          /\ a < b
          /\ ~lookups[a].ok /\ before[a] = 4250 /\ prices[a] = 4250
          /\ lookups[b].ok /\ prices[b] = lookups[b].price

\* C5: fetch steps begin at least FetchIntervalMs apart, a fetch step is in
\* progress only if that much had elapsed since last_update when it began, and
\* the elapsed test of an iteration in which less has elapsed goes on to the
\* poll with no lookup made and last_update unchanged
C5_FetchCadence ==
    /\ [] /\ \A k \in 1..(Len(fetch_at) - 1) :
                fetch_at[k + 1] - fetch_at[k] >= FetchIntervalMs
          /\ pc \in { "get_price", "stamp" } =>
                Last(fetch_at) - last_update >= FetchIntervalMs
    /\ [][ (pc = "elapsed" /\ pc' # pc /\ now - last_update < FetchIntervalMs)
              => /\ pc' = "poll"
                 /\ UNCHANGED << last_update, lookups, fetch_at, prices >> ]_vars

\* C5 witness: one fetch step has run, begun after polls that events cut
\* short; 750 ms have passed since, and the loop is past the elapsed test of a
\* further iteration without a second fetch step
C5_Witness ==
    /\ pc = "poll"
    /\ Len(fetch_at) = 1
    /\ fetch_at[1] % PollTimeoutMs # 0
    /\ now - last_update = 750
    /\ CycleComplete

\* C6 as stated: every configured ticker symbol has exactly one entry of prices
C6_OneEntryPerSymbol ==
    \A s \in Symbols :
        Cardinality({ k \in DOMAIN prices : coin_configs[k].symbol = s }) = 1

\* no lookup for ticker symbol s has been answered so far
NeverFetched(s) ==
    \A k \in 1..NumCoins : coin_configs[k].symbol = s => k \notin fetched

\* C7: every entry of a symbol whose lookups have all failed so far holds 0.0,
\* and what is drawn for it is 0 at the entry's precision
C7_DefaultUntilFetched ==
    \A k \in 1..NumCoins :
        NeverFetched(coin_configs[k].symbol) =>
            /\ prices[k] = 0
            /\ screen # << >> =>
                  screen[k].text = [ sign |-> "", int |-> 0, frac |-> 0,
                                     digits |-> coin_configs[k].precision ]

\* C7 witness: a fetch step in which the first entry failed and the second was
\* answered with 42.5 has been drawn, and the first entry has failed again in a
\* second fetch step
C7_Witness ==
    /\ pc = "stamp"
    /\ Len(fetch_at) = 2
    /\ 1 \notin fetched
    /\ 2 \in fetched
    /\ screen # << >>
    /\ screen[1].text.int = 0
    /\ screen[2].text.int = 42

\* C8: every lookup of the current or last fetch step that was answered with P
\* has left exactly P in its entry, whatever P is and whatever the entry held
C8_StoreOverwrites ==
    \A a \in 1..Len(lookups) :
        lookups[a].ok => prices[lookups[a].index] = lookups[a].price

\* C8 witness: an entry that held 42.5 from an earlier fetch step has been
\* answered with -1.0 and holds -1.0
C8_Witness ==
    \E a \in 1..Len(lookups) :
        /\ lookups[a].ok
        /\ before[lookups[a].index] = 4250
        /\ lookups[a].price = -100
        /\ prices[lookups[a].index] = -100

\* C9: ratatui::restore runs exactly once before main returns, on the Ok and on
\* the Err path, and no error is reported before it: it has not run while run
\* executes, it has run once when main returns, and never more than once
C9_RestoredOnEveryExit ==
    /\ restores <= 1
    /\ (pc \in LoopPcs \cup { "run", "restore" }) => (restores = 0 /\ ~reported)
    /\ (pc \in { "exit", "done" }) => (restores = 1 /\ result \in { "Ok", "Err" })
    /\ reported => (restores = 1 /\ result = "Err" /\ pc = "done")
    /\ (pc = "done" /\ result = "Err") => reported

\* C9 witness: main has returned an error and the terminal was restored
C9_Witness ==
    /\ pc = "done"
    /\ result = "Err"
    /\ reported
    /\ restores = 1

\* a quit key press is waiting in the input source while the loop runs
QuitPending ==
    /\ pc \in LoopPcs
    /\ running
    /\ \E k \in 1..Len(input) : QuitChord(input[k])

\* C10: when a quit key press is waiting while the loop runs, then, unless an
\* I/O error ends the run, a quit key press is read and dispatched and run
\* returns Ok with running false
C10_QuitEventuallyStops ==
    /\ QuitPending ~> ((pc = "handled" /\ QuitChord(ev[1])) \/ result = "Err")
    /\ QuitPending ~> ((result = "Ok" /\ ~running /\ pc = "done") \/ result = "Err")

\* C10 witness: a quit key press waits behind another event during a fetch step
C10_Witness ==
    /\ pc = "get_price"
    /\ Len(input) = 2
    /\ ~QuitChord(input[1])
    /\ QuitChord(input[2])

\* a step of the program itself, as opposed to the arrival of an input event
ProgramStep == pc' # pc \/ idx' # idx

\* the order of the statements of one loop iteration (main.rs:131-143), with
\* the error exits of the three fallible calls
IterationOrder ==
    /\ (pc = "while" /\ running) => pc' = "draw"
    /\ pc = "draw" => /\ pc' \in {"elapsed", "restore"}
                      /\ pc' = "elapsed" => screen' = RenderLines(prices)
    /\ pc = "elapsed" => IF now - last_update >= FetchIntervalMs
                            THEN pc' = "get_price" /\ idx' = 1
                            ELSE pc' = "poll"
    /\ pc = "get_price" => IF idx < NumCoins
                              THEN pc' = "get_price" /\ idx' = idx + 1
                              ELSE pc' = "stamp" /\ Len(lookups') = NumCoins
    /\ pc = "stamp" => pc' = "poll" /\ last_update' = now /\ CycleComplete
    /\ pc = "poll" => /\ pc' \in {"read", "while", "restore"}
                      /\ pc' = "read" => input' # << >> /\ now' - now < PollTimeoutMs
                      /\ pc' = "while" => input = << >>
    /\ pc = "read" => /\ pc' \in {"match", "restore"}
                      /\ pc' = "match" => ev' = << Head(input) >>
    /\ pc = "match" => pc' = "handled"
    /\ pc = "handled" => pc' = "while"

\* C11: every iteration renders, then (when a second has passed) runs the
\* fetch step over all entries and only then sets last_update, then polls and
\* dispatches at most one event or goes straight to the next iteration; the
\* frame on screen during and after a fetch step still shows the prices from
\* before it, and the next render shows the updated ones.
C11_IterationOrder ==
    /\ [][ ProgramStep => IterationOrder ]_vars
    /\ [][ /\ last_update' # last_update => pc = "stamp"
           /\ screen' # screen => pc = "draw"
           /\ prices' # prices => pc = "get_price"
           /\ ev' # ev => pc \in {"read", "handled"} ]_vars
    /\ [] /\ pc \in {"get_price", "stamp"} => screen = RenderLines(before)
          /\ pc = "elapsed" => screen = RenderLines(prices)

\* an event has been dispatched after a fetch step that changed a price; the
\* screen still shows the old price and another event waits for the next
\* iteration
C11_Witness ==
    /\ pc = "handled"
    /\ ev # << >>
    /\ input # << >>
    /\ last_update = now
    /\ \E k \in 1..NumCoins : prices[k] # before[k]
    /\ screen = RenderLines(before)
    /\ screen # RenderLines(prices)

\* the loop of run has been left
LoopExited == pc \in {"restore", "exit", "done"}

\* C12 as stated: whenever the loop of run has exited, running is false (a
\* quit key press was dispatched); no I/O result ends the loop.
C12_Original_ExitOnlyByQuit == LoopExited => running = FALSE

\* C12: running becomes false only by the dispatch of a quit key press; the
\* loop is left either by the loop test finding running false, and then run
\* returns Ok, or by an error of draw, poll or read, and then run returns that
\* error with running still true; no other event and no lookup outcome ends it.
C12_ExitByQuitOrError ==
    /\ [][ (running /\ ~running') =>
              /\ pc = "match" /\ pc' = "handled"
              /\ QuitChord(ev[1])
              /\ called' = << ev[1] >> ]_vars
    /\ [][ (pc \in LoopPcs /\ pc' \notin LoopPcs) =>
              \/ pc = "while" /\ ~running /\ pc' = "restore" /\ result' = "Ok"
              \/ pc \in {"draw", "poll", "read"} /\ running
                   /\ pc' = "restore" /\ result' = "Err" ]_vars
    /\ [] (LoopExited => \/ result = "Ok" /\ running = FALSE
                         \/ result = "Err" /\ running = TRUE)

\* the loop was left by the loop test after a quit dispatch, in a run in which
\* lookups were answered and failed
C12_Witness ==
    /\ pc = "restore"
    /\ result = "Ok"
    /\ running = FALSE
    /\ fetched # {}
    /\ \E a \in 1..Len(lookups) : ~lookups[a].ok

\* a quit dispatch has set running to false
Stopped == pc # "run" /\ running = FALSE

\* C13: once a quit dispatch has set running to false it stays false, and
\* nothing is rendered, looked up, stamped, polled or read any more: the
\* handler returns, the loop test fails and run returns Ok.
C13_StoppedIsTerminal ==
    /\ [][ Stopped =>
              /\ running' = FALSE
              /\ pc' \notin {"run", "draw", "elapsed", "get_price", "stamp", "poll",
                             "read", "match"}
              /\ UNCHANGED << prices, last_update, screen, lookups, fetch_at, now >>
              /\ ev' \in { ev, << >> }
              /\ Len(input') >= Len(input) ]_vars
    /\ [] (Stopped => /\ pc \in {"handled", "while", "restore", "exit", "done"}
                      /\ result \in {"none", "Ok"}
                      /\ (pc \in {"restore", "exit", "done"} => result = "Ok"))

\* run has returned after a quit while another event was still waiting
C13_Witness ==
    /\ Stopped
    /\ pc = "done"
    /\ result = "Ok"
    /\ input # << >>
    /\ screen # << >>

\* C14: whatever the lookups of a fetch step return, all failures included,
\* update_prices returns Ok: the loop stays running, run gets no error from
\* it, last_update is set to the time of its return, and whether the next
\* iteration fetches depends on the elapsed time only.
C14_FetchFailureNotSurfaced ==
    /\ [][ (pc = "get_price" /\ ProgramStep) =>
              /\ pc' \in {"get_price", "stamp"}
              /\ running' = TRUE
              /\ result' = "none" ]_vars
    /\ [][ (pc = "stamp" /\ ProgramStep) =>
              /\ pc' = "poll"
              /\ last_update' = now
              /\ running' = TRUE
              /\ result' = "none" ]_vars
    /\ [][ (pc = "elapsed" /\ ProgramStep) =>
              (pc' = "get_price" <=> now - last_update >= FetchIntervalMs) ]_vars
    /\ [][ result' = "Err" => pc \in {"draw", "poll", "read"} \/ result = "Err" ]_vars
    /\ [] (pc \in {"get_price", "stamp"} => running /\ result = "none")

\* the second fetch step has returned, one interval or more after a first one
\* in which every lookup failed
C14_Witness ==
    /\ pc = "poll"
    /\ running
    /\ result = "none"
    /\ Len(fetch_at) = 2
    /\ fetch_at[2] - fetch_at[1] >= FetchIntervalMs
    /\ CycleComplete
    /\ last_update = now
    /\ n_ok = 1
    /\ \E a \in 1..NumCoins : lookups[a].ok
    /\ \E a \in 1..NumCoins : ~lookups[a].ok

\* C15: an error of terminal draw, of the input poll or of the event read
\* ends the loop at that statement: no later statement of the iteration and
\* no further iteration runs, the failure changes no application state, run
\* returns the error and main returns it as the result of the process.
C15_FatalErrorEndsLoop ==
    /\ [][ (result # "Err" /\ result' = "Err") =>
              /\ pc \in {"draw", "poll", "read"}
              /\ pc' = "restore"
              /\ UNCHANGED << app, screen, event, input, lookups, fetch_at, now >> ]_vars
    /\ [][ result = "Err" =>
              /\ result' = "Err"
              /\ pc \in {"restore", "exit"} /\ pc' \in {"exit", "done"}
              /\ UNCHANGED << app, screen, event, input, lookups, fetch_at, now >> ]_vars
    /\ [] (result = "Err" => /\ pc \in {"restore", "exit", "done"}
                             /\ running = TRUE
                             /\ (pc = "done" => reported))
    /\ [] (reported => result = "Err")

\* poll or read failed after a fetch step that stored a price: the process
\* has ended with the error, the price and the unread event are as they were
C15_Witness ==
    /\ pc = "done"
    /\ result = "Err"
    /\ reported
    /\ running
    /\ input # << >>
    /\ ev = << >>
    /\ \E k \in 1..NumCoins : prices[k] # 0
    /\ screen # RenderLines(prices)

\* C16: render changes none of running, prices and last_update; poll, read
\* and dispatch change at most running; prices change only in the lookup loop
\* of the fetch step, where running does not change; prices keeps one value
\* per record of the configuration list, which is fixed by App::new.
C16_FrameConditions ==
    /\ [][ pc = "draw" => UNCHANGED << running, prices, last_update >> ]_vars
    /\ [][ (pc \in {"poll", "read", "match", "handled"}) =>
              UNCHANGED << prices, last_update >> ]_vars
    /\ [][ prices' # prices => pc = "get_price" /\ UNCHANGED << running, last_update >> ]_vars
    /\ [][ running' # running => pc \in {"run", "match"} ]_vars
    /\ [] (DOMAIN prices = 1..Len(coin_configs))

\* a quit was dispatched after a render of fetched prices: only running differs
\* from the state the render saw
C16_Witness ==
    /\ pc = "handled"
    /\ running = FALSE
    /\ \E k \in 1..NumCoins : prices[k] # 0
    /\ screen = RenderLines(prices)
    /\ last_update > 0

\* C17: from the start of a fetch step to the return of its last lookup the
\* loop reads and dispatches no event and renders nothing; the step is left
\* only by the return of the lookup of the last entry, so a quit key that
\* arrives meanwhile stays in the input source with running true; as long as
\* a lookup has not returned, nothing but the arrival of events happens.
C17_FetchBlocks ==
    /\ [][ pc = "get_price" =>
              /\ running' = TRUE
              /\ UNCHANGED << ev, called, screen, last_update, result >>
              /\ Len(input') >= Len(input)
              /\ input # << >> => Head(input') = Head(input) ]_vars
    /\ [][ (pc = "get_price" /\ pc' # "get_price") =>
              /\ idx = NumCoins
              /\ pc' = "stamp"
              /\ Len(lookups') = NumCoins ]_vars
    /\ [][ (pc = "get_price" /\ ~ProgramStep) =>
              UNCHANGED << pc, running, prices, last_update, idx, ev, called, result,
                           screen, now, lookups >> ]_vars
    /\ [] (pc = "get_price" => /\ running = TRUE
                               /\ ev = << >>
                               /\ Len(lookups) = idx - 1
                               /\ screen = RenderLines(before))

\* a quit key is waiting while the fetch step is at its last lookup, some of
\* the earlier lookups having taken time; the loop is still running
C17_Witness ==
    /\ pc = "get_price"
    /\ idx = NumCoins
    /\ input # << >>
    /\ QuitChord(Head(input))
    /\ running = TRUE
    /\ now > Last(fetch_at)
    /\ prices # before

\* the lookups of the current fetch cycle issued for ticker symbol s
LookupsOf(s) == { a \in 1..Len(lookups) : lookups[a].symbol = s }

\* C18: in a fetch cycle no ticker symbol is looked up more than once, and
\* when the cycle is complete every configured symbol has been looked up
\* exactly once, in configuration order.
C18_OneLookupPerSymbol ==
    /\ \A s \in Symbols : Cardinality(LookupsOf(s)) <= 1
    /\ CycleComplete => \A s \in Symbols : Cardinality(LookupsOf(s)) = 1
    /\ \A a \in 1..Len(lookups) :
          lookups[a].index = a /\ lookups[a].symbol = coin_configs[a].symbol

\* C19: outside the fetch step, entries of the configuration list that carry
\* the same ticker symbol hold the same stored price.
C19_SameSymbolSamePrice ==
    pc \notin {"get_price"} =>
        \A a, b \in 1..NumCoins :
            coin_configs[a].symbol = coin_configs[b].symbol => prices[a] = prices[b]

\* the frame that shows the value 0.0 on every line
ZeroScreen == RenderLines([ k \in 1..NumCoins |-> 0 ])

\* C20: the first fetch step starts no earlier than one interval after
\* App::new (time 0); until then no lookup is issued, every stored price is
\* 0.0 and every frame drawn, of which there is at least one, shows 0.0 on
\* every line; last_update is taken when the lookups have returned, and a
\* fetch step starts only when one interval has passed since last_update.
C20_NoFetchAtStartup ==
    /\ [] (fetch_at # << >> => fetch_at[1] >= FetchIntervalMs /\ screen # << >>)
    /\ [] (fetch_at = << >> =>
              /\ lookups = << >>
              /\ last_update = 0
              /\ \A k \in 1..NumCoins : prices[k] = 0
              /\ screen \in { << >>, ZeroScreen })
    /\ [] (pc = "get_price" => screen = RenderLines(before))
    /\ [][ (pc = "stamp" /\ ProgramStep) =>
              /\ last_update' = now
              /\ now >= Last(fetch_at)
              /\ CycleComplete ]_vars
    /\ [][ fetch_at' # fetch_at =>
              /\ pc = "elapsed"
              /\ now - last_update >= FetchIntervalMs
              /\ fetch_at' = Append(fetch_at, now) ]_vars
    /\ [][ last_update' # last_update => pc = "stamp" ]_vars

\* a full interval after the start of the first fetch step, but less than one
\* after its end, the elapsed test has not started another; before the first
\* step the frames showed 0.0
C20_Witness ==
    /\ pc = "poll"
    /\ Len(fetch_at) = 1
    /\ fetch_at[1] = FetchIntervalMs
    /\ last_update > fetch_at[1]
    /\ now - fetch_at[1] >= FetchIntervalMs
    /\ now - last_update < FetchIntervalMs
    /\ screen = RenderLines(prices)
    /\ screen # ZeroScreen

====
